---- MODULE Spec2Model ----
(***************************************************************************)
(* Model of streamlit_app.py: a single Streamlit handler, main(), that is  *)
(* re-run from top to bottom after every user interaction.                 *)
(*                                                                         *)
(* Representation of Python values:                                        *)
(*   - a str whose characters the code computes or compares (the document  *)
(*     text, the literal "Unsupported file type.") is a sequence of code   *)
(*     points; bytes are a sequence of 0..255;                             *)
(*   - a MIME type is a sequence of one-character strings, so that the     *)
(*     substring tests of get_file_content are computed;                   *)
(*   - a str the code only passes around (API key, sheet names, question,  *)
(*     reply, file name) is a TLA+ string, "" being the empty str;         *)
(*   - st.session_state is a function whose DOMAIN is the set of keys      *)
(*     present.                                                            *)
(***************************************************************************)
EXTENDS Integers, Sequences, FiniteSets, TLC

VARIABLES session_state, ui, run

vars == <<session_state, ui, run>>

(***************************************************************************)
(* Bounds                                                                  *)
(***************************************************************************)
MaxHistory == 3
MaxBytes == 2
MaxPages == 2

(***************************************************************************)
(* Python str / bytes helpers                                              *)
(***************************************************************************)
\* Python's `sub in s` on sequences
Contains(sub, s) ==
    \E i \in 1..(Len(s) - Len(sub) + 1) : SubSeq(s, i, i + Len(sub) - 1) = sub

RECURSIVE Concat(_)
\* text = ""; for page in pages: text += page
Concat(texts) ==
    IF texts = <<>> THEN <<>> ELSE Head(texts) \o Concat(Tail(texts))

IsContinuation(x) == x \div 64 = 2

\* number of bytes of the UTF-8 sequence a lead byte announces, 0 if the byte
\* cannot start a sequence
SeqLength(b1) ==
    IF b1 < 128 THEN 1
    ELSE IF b1 \div 32 = 6 THEN 2
    ELSE IF b1 \div 16 = 14 THEN 3
    ELSE IF b1 \div 8 = 30 THEN 4
    ELSE 0

\* code point of the UTF-8 sequence at the head of b, -1 if it is malformed
\* (truncated, bad continuation byte, overlong, surrogate, above U+10FFFF)
CodePoint(b) ==
    LET n == SeqLength(b[1]) IN
    IF n = 0 \/ Len(b) < n THEN -1
    ELSE IF n = 1 THEN b[1]
    ELSE IF \E k \in 2..n : ~IsContinuation(b[k]) THEN -1
    ELSE IF n = 2 THEN
        LET cp == (b[1] % 32) * 64 + (b[2] % 64) IN
        IF cp < 128 THEN -1 ELSE cp
    ELSE IF n = 3 THEN
        LET cp == (b[1] % 16) * 4096 + (b[2] % 64) * 64 + (b[3] % 64) IN
        IF cp < 2048 \/ (cp >= 55296 /\ cp <= 57343) THEN -1 ELSE cp
    ELSE
        LET cp == (b[1] % 8) * 262144 + (b[2] % 64) * 4096
                  + (b[3] % 64) * 64 + (b[4] % 64) IN
        IF cp < 65536 \/ cp > 1114111 THEN -1 ELSE cp

RECURSIVE decode_utf8(_)
\* bytes.decode("utf-8") with the default errors="strict":
\* raised = TRUE stands for UnicodeDecodeError
decode_utf8(b) ==
    IF b = <<>> THEN [raised |-> FALSE, value |-> <<>>]
    ELSE LET cp == CodePoint(b) IN
         IF cp = -1 THEN [raised |-> TRUE, value |-> <<>>]
         ELSE LET rest == decode_utf8(SubSeq(b, SeqLength(b[1]) + 1, Len(b))) IN
              IF rest.raised THEN rest
              ELSE [raised |-> FALSE, value |-> <<cp>> \o rest.value]

(***************************************************************************)
(* get_file_content                                                        *)
(***************************************************************************)
T_text == <<"t", "e", "x", "t">>
T_markdown == <<"m", "a", "r", "k", "d", "o", "w", "n">>
T_pdf == <<"p", "d", "f">>

\* "Unsupported file type."
Unsupported ==
    <<85, 110, 115, 117, 112, 112, 111, 114, 116, 101, 100, 32,
      102, 105, 108, 101, 32, 116, 121, 112, 101, 46>>

\* An uploaded file: name, browser-supplied MIME type, bytes, and what
\* PyPDF2 makes of the bytes (pdf.valid = FALSE: PdfReader raises; otherwise
\* pdf.pages[i] is what pages[i].extract_text() returns).
\* Mutant: the pdf test takes precedence over the text/markdown test.
get_file_content_pdf_first(uploaded_file) ==
    LET file_type == uploaded_file.type IN
    IF Contains(T_pdf, file_type) THEN
        IF uploaded_file.pdf.valid
        THEN [raised |-> FALSE, value |-> Concat(uploaded_file.pdf.pages)]
        ELSE [raised |-> TRUE, value |-> <<>>]
    ELSE IF Contains(T_text, file_type) \/ Contains(T_markdown, file_type) THEN
        decode_utf8(uploaded_file.bytes)
    ELSE [raised |-> FALSE, value |-> Unsupported]

get_file_content(uploaded_file) ==
    LET file_type == uploaded_file.type IN
    IF Contains(T_text, file_type) \/ Contains(T_markdown, file_type) THEN
        decode_utf8(uploaded_file.bytes)
    ELSE IF Contains(T_pdf, file_type) THEN
        IF uploaded_file.pdf.valid
        THEN [raised |-> FALSE, value |-> Concat(uploaded_file.pdf.pages)]
        ELSE [raised |-> TRUE, value |-> <<>>]
    ELSE [raised |-> FALSE, value |-> Unsupported]

(***************************************************************************)
(* One run of main(): the machine state m = [ss, tr] is threaded through   *)
(* the handler's statements.  ss is st.session_state; tr records what the  *)
(* run did (requests sent, rows appended, messages displayed, the call     *)
(* site whose exception left main(), how far rendering got).               *)
(***************************************************************************)
NoFile ==
    [name |-> "", type |-> <<>>, bytes |-> <<>>,
     pdf |-> [valid |-> FALSE, pages |-> <<>>]]

\* defaults of the three sidebar text fields: lines 65-67
DefaultSidebar ==
    [sheet |-> "", analysis_ws |-> "Analysis", questions_ws |-> "Questions"]

NoExtract == [called |-> FALSE, raised |-> FALSE, value |-> <<>>]

NewRun(button) ==
    [button |-> button, returned |-> FALSE, escaped |-> "", sites |-> {},
     requests |-> <<>>, rows |-> <<>>, errors |-> <<>>,
     extract |-> NoExtract, rendered |-> 0, gen |-> "none", chat |-> "none",
     sidebar |-> DefaultSidebar, consulted |-> {}]

\* the run has neither returned nor been left by an exception
Live(m) == ~m.tr.returned /\ m.tr.escaped = ""

\* outcomes of the model calls inside a try block
\* (get_gemini_model; generate_content; response.text)
GenOutcomes == {"ok", "configure_raises", "generate_raises", "text_raises"}

\* outcomes of lines 115-121
\* (get_gemini_model; start_chat; send_message; response.text)
ChatOutcomes ==
    {"ok", "configure_raises", "start_chat_raises", "send_raises", "text_raises"}

\* what the run records of the chat exchange: an exception of lines 115-116
\* leaves main(), one of lines 119-121 is caught on line 124
ChatResult(outcome) ==
    IF outcome \in {"configure_raises", "start_chat_raises"} THEN "escaped"
    ELSE outcome

Replies == {"R"}

\* if k not in st.session_state: st.session_state[k] = v
SetDefault(ss, k, v) == IF k \in DOMAIN ss THEN ss ELSE ss @@ (k :> v)

Defaults(ss) ==
    SetDefault(SetDefault(SetDefault(SetDefault(ss,
        "gemini_api_key", ""),
        "chat_history", <<>>),
        "document_content", <<>>),
        "google_sheet_credentials", "None")

\* st.error(msg)
ShowError(tr, msg) == [tr EXCEPT !.errors = Append(@, msg)]

\* Mutant: an empty key field does not stop the run.
KeyGate_no_return(m, u) ==
    IF u.key # ""
    THEN [m EXCEPT !.ss.gemini_api_key = u.key]
    ELSE m

\* lines 48-54
KeyGate(m, u) ==
    IF u.key # ""
    THEN [m EXCEPT !.ss.gemini_api_key = u.key]
    ELSE [m EXCEPT !.tr.returned = TRUE]

\* json.load of the uploaded credentials file: "bad" is not JSON, "empty"
\* parses to {} (falsy), "good" parses to a service-account dict
json_load(cred) ==
    IF cred = "bad" THEN [raised |-> TRUE, value |-> "None"]
    ELSE IF cred = "empty" THEN [raised |-> FALSE, value |-> "{}"]
    ELSE [raised |-> FALSE, value |-> "SA"]

\* Python truthiness of st.session_state["google_sheet_credentials"]
Truthy(credentials) == credentials = "SA"

\* lines 58-63
CredStep(m, u) ==
    IF ~Live(m) THEN m
    ELSE LET m1 == [m EXCEPT !.tr.rendered = 1] IN
         IF u.cred # "none" THEN
            LET r == json_load(u.cred)
                m2 == [m1 EXCEPT !.tr.sites = @ \cup {"json.load"}] IN
            IF r.raised THEN [m2 EXCEPT !.tr.escaped = "json.load"]
            ELSE [m2 EXCEPT !.ss.google_sheet_credentials = r.value]
         ELSE m1

\* lines 65-70: the sheet-name fields and the document uploader are drawn
InputsStep(m) ==
    IF ~Live(m) THEN m ELSE [m EXCEPT !.tr.rendered = 2]

\* try: model = get_gemini_model(key); response = model.generate_content(
\* prefix + doc); st.write(response.text)  except: st.error(msg)
\* The prompt is a fixed prefix per call followed by the document text; it is
\* recorded as the pair (call, doc).
Generate(tr, call, doc, outcome, msg) ==
    LET tr1 == [tr EXCEPT !.sites = @ \cup {call},
                          !.gen = IF outcome = "ok" THEN "ok" ELSE "failed"]
        tr2 == IF outcome = "configure_raises" THEN tr1
               ELSE [tr1 EXCEPT !.requests =
                        Append(@, [call |-> call, doc |-> doc, question |-> ""])]
    IN IF outcome = "ok" THEN tr2 ELSE ShowError(tr2, msg)

\* lines 25-33
save_to_google_sheet(tr, site, data, sheet_name, worksheet_name, ok) ==
    LET tr1 == [tr EXCEPT !.sites = @ \cup {site}] IN
    IF ok
    THEN [tr1 EXCEPT !.rows = Append(@, [sheet |-> sheet_name,
                                         worksheet |-> worksheet_name,
                                         data |-> data])]
    ELSE ShowError(tr1, "Error saving to Google Sheet")

\* Mutant: the guard no longer tests that no document text is held.
SummaryStep_overwrite(m, u, env) ==
    IF ~Live(m) THEN m
    ELSE IF u.file # NoFile THEN
        LET r == get_file_content(u.file)
            m1 == [m EXCEPT !.tr.sites = @ \cup {"get_file_content"},
                            !.tr.extract = [called |-> TRUE, raised |-> r.raised,
                                            value |-> r.value]] IN
        IF r.raised THEN [m1 EXCEPT !.tr.escaped = "get_file_content"]
        ELSE LET m2 == [m1 EXCEPT !.ss.document_content = r.value] IN
             IF m2.ss.document_content # Unsupported
             THEN [m2 EXCEPT !.tr = Generate(@, "summary", m2.ss.document_content,
                                             env.gen, "Error summarizing document")]
             ELSE [m2 EXCEPT !.tr = ShowError(@, "Unsupported file type.")]
    ELSE m

\* lines 72-84
SummaryStep(m, u, env) ==
    IF ~Live(m) THEN m
    ELSE IF u.file # NoFile /\ m.ss.document_content = <<>> THEN
        LET r == get_file_content(u.file)
            m1 == [m EXCEPT !.tr.sites = @ \cup {"get_file_content"},
                            !.tr.extract = [called |-> TRUE, raised |-> r.raised,
                                            value |-> r.value]] IN
        IF r.raised THEN [m1 EXCEPT !.tr.escaped = "get_file_content"]
        ELSE LET m2 == [m1 EXCEPT !.ss.document_content = r.value] IN
             IF m2.ss.document_content # Unsupported
             THEN [m2 EXCEPT !.tr = Generate(@, "summary", m2.ss.document_content,
                                             env.gen, "Error summarizing document")]
             ELSE [m2 EXCEPT !.tr = ShowError(@, "Unsupported file type.")]
    ELSE m

\* lines 89-99
AnalysisStep(m, u, env) ==
    LET tr1 == Generate(m.tr, "analysis", m.ss.document_content, env.gen,
                        "Error generating statistical analysis proposals") IN
    IF env.gen = "ok" /\ Truthy(m.ss.google_sheet_credentials)
    THEN LET tr2 == [tr1 EXCEPT !.consulted = @ \cup {"analysis"}] IN
         IF env.sheet # "" /\ env.analysis_ws # ""
         THEN IF u.file = NoFile
              \* uploaded_file.name on None raises inside the try block
              THEN [m EXCEPT !.tr = ShowError(tr2,
                        "Error generating statistical analysis proposals")]
              ELSE [m EXCEPT !.tr = save_to_google_sheet(tr2, "save_analysis",
                        <<u.file.name, "Analysis Proposal", env.reply>>,
                        env.sheet, env.analysis_ws, env.saveA)]
         ELSE [m EXCEPT !.tr = tr2]
    ELSE [m EXCEPT !.tr = tr1]

\* Mutant: the quiz is logged to the analysis worksheet as well.
QuizStep_saves(m, u, env) ==
    LET tr1 == Generate(m.tr, "quiz", m.ss.document_content, env.gen,
                        "Error generating quiz") IN
    IF env.gen = "ok" /\ u.file # NoFile
    THEN [m EXCEPT !.tr = save_to_google_sheet(tr1, "save_analysis",
              <<u.file.name, "Quiz", env.reply>>, "S", "Analysis", TRUE)]
    ELSE [m EXCEPT !.tr = tr1]

\* lines 101-109
QuizStep(m, u, env) ==
    [m EXCEPT !.tr = Generate(@, "quiz", m.ss.document_content, env.gen,
                              "Error generating quiz")]

\* lines 86-109: st.button is True only in the run its click triggered
ButtonsStep(m, u, env) ==
    IF ~Live(m) \/ m.ss.document_content = <<>> THEN m
    ELSE IF m.tr.button = "analysis" THEN AnalysisStep(m, u, env)
    ELSE IF m.tr.button = "quiz" THEN QuizStep(m, u, env)
    ELSE m

UserTurn(q) == [role |-> "user", parts |-> <<q>>]
ModelTurn(r) == [role |-> "model", parts |-> <<r>>]

\* Mutant: the reply is recorded before the question.
ChatStep_swapped(m, u, env) ==
    IF ~Live(m) \/ m.ss.document_content = <<>> THEN m
    ELSE LET m1 == [m EXCEPT !.tr.rendered = 3] IN
         IF u.question = "" THEN m1
         ELSE LET m2 == [m1 EXCEPT !.tr.sites = @ \cup {"chat"},
                                   !.tr.chat = ChatResult(env.chat)] IN
              \* lines 115-116 are outside the try block
              IF env.chat \in {"configure_raises", "start_chat_raises"}
              THEN [m2 EXCEPT !.tr.escaped = "chat"]
              ELSE LET m3 == [m2 EXCEPT !.tr.requests = Append(@,
                                  [call |-> "chat",
                                   doc |-> m.ss.document_content,
                                   question |-> u.question])] IN
                   IF env.chat = "send_raises"
                   THEN [m3 EXCEPT !.tr = ShowError(@,
                             "Error communicating with Gemini")]
                   ELSE
                                      LET m4 == [m3 EXCEPT !.ss.chat_history =
                                  Append(@, ModelTurn(env.reply))] IN
                   IF env.chat = "text_raises"
                   THEN [m4 EXCEPT !.tr = ShowError(@,
                             "Error communicating with Gemini")]
                   ELSE
                   LET m5 == [m4 EXCEPT !.ss.chat_history =
                                  Append(@, UserTurn(u.question))] IN
                   IF Truthy(m5.ss.google_sheet_credentials)
                   THEN LET m6 == [m5 EXCEPT !.tr.consulted =
                                       @ \cup {"questions"}] IN
                        IF env.sheet # "" /\ env.questions_ws # ""
                        THEN IF u.file = NoFile
                             \* uploaded_file.name on None raises inside
                             \* the try block, after both appends
                             THEN [m6 EXCEPT !.tr = ShowError(@,
                                       "Error communicating with Gemini")]
                             ELSE [m6 EXCEPT !.tr = save_to_google_sheet(@,
                                       "save_question",
                                       <<u.file.name, u.question, env.reply>>,
                                       env.sheet, env.questions_ws, env.saveQ)]
                        ELSE m6
                   ELSE m5

\* lines 111-129
ChatStep(m, u, env) ==
    IF ~Live(m) \/ m.ss.document_content = <<>> THEN m
    ELSE LET m1 == [m EXCEPT !.tr.rendered = 3] IN
         IF u.question = "" THEN m1
         ELSE LET m2 == [m1 EXCEPT !.tr.sites = @ \cup {"chat"},
                                   !.tr.chat = ChatResult(env.chat)] IN
              \* lines 115-116 are outside the try block
              IF env.chat \in {"configure_raises", "start_chat_raises"}
              THEN [m2 EXCEPT !.tr.escaped = "chat"]
              ELSE LET m3 == [m2 EXCEPT !.tr.requests = Append(@,
                                  [call |-> "chat",
                                   doc |-> m.ss.document_content,
                                   question |-> u.question])] IN
                   IF env.chat = "send_raises"
                   THEN [m3 EXCEPT !.tr = ShowError(@,
                             "Error communicating with Gemini")]
                   ELSE
                   \* line 120 runs before response.text is read on line 121
                   LET m4 == [m3 EXCEPT !.ss.chat_history =
                                  Append(@, UserTurn(u.question))] IN
                   IF env.chat = "text_raises"
                   THEN [m4 EXCEPT !.tr = ShowError(@,
                             "Error communicating with Gemini")]
                   ELSE
                   LET m5 == [m4 EXCEPT !.ss.chat_history =
                                  Append(@, ModelTurn(env.reply))] IN
                   IF Truthy(m5.ss.google_sheet_credentials)
                   THEN LET m6 == [m5 EXCEPT !.tr.consulted =
                                       @ \cup {"questions"}] IN
                        IF env.sheet # "" /\ env.questions_ws # ""
                        THEN IF u.file = NoFile
                             \* uploaded_file.name on None raises inside
                             \* the try block, after both appends
                             THEN [m6 EXCEPT !.tr = ShowError(@,
                                       "Error communicating with Gemini")]
                             ELSE [m6 EXCEPT !.tr = save_to_google_sheet(@,
                                       "save_question",
                                       <<u.file.name, u.question, env.reply>>,
                                       env.sheet, env.questions_ws, env.saveQ)]
                        ELSE m6
                   ELSE m5

\* lines 35-129
main(ss, u, button, env) ==
    LET m0 == [ss |-> Defaults(ss),
               tr |-> [NewRun(button) EXCEPT !.sidebar =
                          [sheet |-> env.sheet,
                           analysis_ws |-> env.analysis_ws,
                           questions_ws |-> env.questions_ws]]]
        \* each statement acts on the value the previous one produced
        s1 == {KeyGate(m, u) : m \in {m0}}
        s2 == {CredStep(m, u) : m \in s1}
        s3 == {InputsStep(m) : m \in s2}
        s4 == {SummaryStep(m, u, env) : m \in s3}
        s5 == {ButtonsStep(m, u, env) : m \in s4}
        s6 == {ChatStep(m, u, env) : m \in s5}
    IN CHOOSE m \in s6 : TRUE

(***************************************************************************)
(* The page: widget values held by the browser between runs, and the user  *)
(* interactions, each of which triggers one complete run of main().        *)
(***************************************************************************)
M_text_plain == <<"t", "e", "x", "t", "/", "p", "l", "a", "i", "n">>
M_text_markdown ==
    <<"t", "e", "x", "t", "/", "m", "a", "r", "k", "d", "o", "w", "n">>
M_application_pdf ==
    <<"a", "p", "p", "l", "i", "c", "a", "t", "i", "o", "n", "/", "p", "d", "f">>
M_text_pdf == <<"t", "e", "x", "t", "/", "p", "d", "f">>
M_image_png == <<"i", "m", "a", "g", "e", "/", "p", "n", "g">>

NoPdf == [valid |-> FALSE, pages |-> <<>>]

\* "Hi" as text/plain
F_txt == [name |-> "a.txt", type |-> M_text_plain, bytes |-> <<72, 105>>,
          pdf |-> NoPdf]
\* a zero-byte text file
F_empty == [name |-> "e.txt", type |-> M_text_plain, bytes |-> <<>>,
            pdf |-> NoPdf]
\* a text file that is not valid UTF-8
F_bad == [name |-> "b.txt", type |-> M_text_plain, bytes |-> <<255>>,
          pdf |-> NoPdf]
\* a file whose MIME type is neither text, markdown nor pdf
F_png == [name |-> "p.png", type |-> M_image_png, bytes |-> <<137, 80>>,
          pdf |-> NoPdf]

Files == {F_txt, F_empty, F_bad, F_png}
Keys == {"K"}
Questions == {"Q"}
CredFiles == {"good", "empty", "bad"}

\* defaults of the widgets whose value the page keeps between runs:
\* lines 48, 58, 70, 112
DefaultUI == [key |-> "", cred |-> "none", file |-> NoFile, question |-> ""]

\* A widget that a run did not draw loses its value and shows its default
\* the next time it is drawn.  tr.rendered: 0 = only the key field (return on
\* line 54), 1 = credentials uploader (exception on line 60), 2 = sheet
\* fields and document uploader, 3 = buttons and question field.
Redraw(u, rendered) ==
    [key |-> u.key,
     cred |-> IF rendered >= 1 THEN u.cred ELSE DefaultUI.cred,
     file |-> IF rendered >= 2 THEN u.file ELSE DefaultUI.file,
     question |-> IF rendered >= 3 THEN u.question ELSE DefaultUI.question]

\* every external call succeeds and every sheet field is filled in: the run
\* that reaches the most call sites
OkEnv ==
    [gen |-> "ok", chat |-> "ok", saveA |-> TRUE, saveQ |-> TRUE, reply |-> "R",
     sheet |-> "S", analysis_ws |-> "Analysis", questions_ws |-> "Questions"]

\* What one run reads from outside: the outcomes of the external calls and
\* the three sidebar text fields.  The text fields are read afresh by every
\* run and the model does not restrict how the user changed them since the
\* previous run.  An outcome or a field the run never reads keeps its value
\* in OkEnv or DefaultSidebar; tr0 is the trace of the same run under OkEnv.
\* One script run with widget values u and the clicked button:
Rerun(u, button) ==
    \E tr0 \in {main(session_state, u, button, OkEnv).tr} :
    \E gen \in IF tr0.sites \cap {"summary", "analysis", "quiz"} # {}
               THEN GenOutcomes ELSE {"ok"} :
    \E chat \in IF "chat" \in tr0.sites THEN ChatOutcomes ELSE {"ok"} :
    LET asksA == "analysis" \in tr0.consulted /\ gen = "ok"
        asksQ == "questions" \in tr0.consulted /\ chat = "ok"
    IN
    \E sheet \in IF asksA \/ asksQ THEN {"", "S"} ELSE {DefaultSidebar.sheet} :
    \E analysis_ws \in IF asksA /\ sheet # "" THEN {"", "Analysis"}
                       ELSE {DefaultSidebar.analysis_ws} :
    \E questions_ws \in IF asksQ /\ sheet # "" THEN {"", "Questions"}
                        ELSE {DefaultSidebar.questions_ws} :
    \E saveA \in IF "save_analysis" \in tr0.sites /\ asksA /\ sheet # ""
                    /\ analysis_ws # "" THEN BOOLEAN ELSE {TRUE} :
    \E saveQ \in IF "save_question" \in tr0.sites /\ asksQ /\ sheet # ""
                    /\ questions_ws # "" THEN BOOLEAN ELSE {TRUE} :
    \E reply \in Replies :
    \E m \in {main(session_state, u, button,
                    [gen |-> gen, chat |-> chat, saveA |-> saveA,
                     saveQ |-> saveQ, reply |-> reply, sheet |-> sheet,
                     analysis_ws |-> analysis_ws,
                     questions_ws |-> questions_ws])} :
        /\ Len(m.ss.chat_history) <= MaxHistory
        /\ session_state' = m.ss
        /\ run' = m.tr
        /\ ui' = Redraw(u, m.tr.rendered)

Init ==
    /\ session_state = <<>>
    /\ ui = DefaultUI
    /\ run = NewRun("none")

\* a run that changes none of the kept widgets: first page load, "Rerun"
\* menu entry, edit of a sidebar text field
Reload == Rerun(ui, "none")

EditKey ==
    \E k \in Keys \cup {""} :
        k # ui.key /\ Rerun([ui EXCEPT !.key = k], "none")

UploadCredentials ==
    /\ run.rendered >= 1
    /\ \E c \in CredFiles \cup {"none"} :
        c # ui.cred /\ Rerun([ui EXCEPT !.cred = c], "none")

UploadFile ==
    /\ run.rendered >= 2
    /\ \E f \in Files \cup {NoFile} :
        f # ui.file /\ Rerun([ui EXCEPT !.file = f], "none")

PressAnalysis == run.rendered >= 3 /\ Rerun(ui, "analysis")

PressQuiz == run.rendered >= 3 /\ Rerun(ui, "quiz")

EditQuestion ==
    /\ run.rendered >= 3
    /\ \E q \in Questions \cup {""} :
        q # ui.question /\ Rerun([ui EXCEPT !.question = q], "none")

Next ==
    \/ Reload
    \/ EditKey
    \/ UploadCredentials
    \/ UploadFile
    \/ PressAnalysis
    \/ PressQuiz
    \/ EditQuestion

Spec == Init /\ [][Next]_vars

(***************************************************************************)
(* get_file_content on its own: every file of ExtractFiles is handed to it *)
(* once.                                                                   *)
(***************************************************************************)
M_markdown == <<"x", "/", "m", "a", "r", "k", "d", "o", "w", "n">>

ExtractTypes ==
    {M_text_plain, M_text_markdown, M_markdown, M_application_pdf, M_text_pdf,
     M_image_png}

\* "H", the two bytes of U+00E9, the lead byte of a three-byte sequence and a
\* byte no UTF-8 text contains
ByteAlphabet == {72, 195, 169, 226, 255}

\* texts extract_text() returns for a page: "", "A", "BC"
PageTexts == {<<>>, <<65>>, <<66, 67>>}

SeqsUpTo(S, n) == UNION {[1..k -> S] : k \in 0..n}

ExtractFiles ==
    [name : {"f"}, type : ExtractTypes, bytes : SeqsUpTo(ByteAlphabet, MaxBytes),
     pdf : {NoPdf} \cup [valid : {TRUE}, pages : SeqsUpTo(PageTexts, MaxPages)]]

InitExtract ==
    /\ session_state = <<>>
    /\ ui \in {[DefaultUI EXCEPT !.file = f] : f \in ExtractFiles}
    /\ run = NewRun("none")

ExtractCall ==
    /\ ~run.extract.called
    /\ \E r \in {get_file_content(ui.file)} :
        run' = [run EXCEPT !.extract = [called |-> TRUE, raised |-> r.raised,
                                        value |-> r.value]]
    /\ UNCHANGED <<session_state, ui>>

NextExtract == ExtractCall

SpecExtract == InitExtract /\ [][NextExtract]_vars

(***************************************************************************)
(* Properties                                                              *)
(***************************************************************************)
\* st.session_state["chat_history"] as the run finds it after lines 40-41
History(ss) == Defaults(ss).chat_history

\* st.session_state["document_content"] as the run finds it after lines 42-43
Document(ss) == Defaults(ss).document_content

HasRequest(tr, call) == \E i \in DOMAIN tr.requests : tr.requests[i].call = call

\* C1: in every run with a non-empty question whose chat exchange succeeds,
\* the history after the run is the history before it followed by the user
\* turn holding the question and the model turn holding the reply, in this
\* order.
C1_SuccessAppendsPair ==
    [][(ui'.question # "" /\ run'.chat = "ok")
        => \E r \in Replies :
             session_state'.chat_history =
                History(session_state)
                    \o <<UserTurn(ui'.question), ModelTurn(r)>>]_vars

\* a successful exchange that found an earlier turn in the history
C1_Witness ==
    /\ run.chat = "ok"
    /\ ui.question # ""
    /\ Len(session_state.chat_history) = 3

\* C2: a chat exchange that does not succeed leaves the history as it was,
\* so the history always consists of complete user/model pairs.
C2_FailureLeavesHistory ==
    [][/\ run'.chat \in {"escaped", "send_raises", "text_raises"}
            => session_state'.chat_history = History(session_state)
       /\ LET h == History(session_state') IN
          /\ Len(h) % 2 = 0
          /\ \A i \in DOMAIN h :
                h[i].role = IF i % 2 = 1 THEN "user" ELSE "model"]_vars

\* C3: no failure of an external call leaves main(): each is caught and
\* displayed.
C3_NoFailureEscapes == run.escaped = ""

\* C4: a row is appended only after a successful model reply for an analysis
\* press or a chat question, with credentials loaded and non-empty sheet and
\* worksheet names; an analysis row goes to the analysis worksheet, a
\* question row to the questions worksheet; a quiz, a summary or a failed
\* model call appends nothing.
IsAnalysisRow(row) ==
    /\ row.data[2] = "Analysis Proposal"
    /\ run.button = "analysis"
    /\ run.gen = "ok"
    /\ row.worksheet = run.sidebar.analysis_ws

IsQuestionRow(row) ==
    /\ ui.question # ""
    /\ row.data[2] = ui.question
    /\ run.chat = "ok"
    /\ row.worksheet = run.sidebar.questions_ws

C4_RowsOnlyAfterReply ==
    /\ Len(run.rows) <= 2
    /\ \A i \in DOMAIN run.rows :
        /\ Truthy(session_state.google_sheet_credentials)
        /\ run.rows[i].sheet # ""
        /\ run.rows[i].sheet = run.sidebar.sheet
        /\ run.rows[i].worksheet # ""
        /\ IsAnalysisRow(run.rows[i]) \/ IsQuestionRow(run.rows[i])
    /\ Len(run.rows) = 2
         => IsAnalysisRow(run.rows[1]) /\ IsQuestionRow(run.rows[2])

\* one run logs an analysis proposal and a question
C4_Witness ==
    /\ Len(run.rows) = 2
    /\ run.rows[1].worksheet = "Analysis"
    /\ run.rows[2].worksheet = "Questions"

\* C5: once the summarization request for an uploaded file was issued and
\* failed, the next run does not issue it again while the file stays
\* uploaded.
C5_NoRetry ==
    [][(/\ HasRequest(run, "summary")
        /\ run.gen = "failed"
        /\ ui.file # NoFile
        /\ ui'.file = ui.file)
        => ~HasRequest(run', "summary")]_vars

\* C6: get_file_content returns the UTF-8 decoding of the bytes when the type
\* contains "text" or "markdown" (whatever else it contains), otherwise the
\* page texts in ascending page order when the type contains "pdf", otherwise
\* the literal "Unsupported file type.".
RECURSIVE TotalLen(_)
TotalLen(texts) ==
    IF texts = <<>> THEN 0 ELSE Len(Head(texts)) + TotalLen(Tail(texts))

\* t holds the pages one after the other, page 1 first
PagesInOrder(t, pages) ==
    /\ Len(t) = TotalLen(pages)
    /\ \A k \in DOMAIN pages :
        LET offset == TotalLen(SubSeq(pages, 1, k - 1)) IN
        SubSeq(t, offset + 1, offset + Len(pages[k])) = pages[k]

C6_TypePrecedence ==
    run.extract.called =>
        LET f == ui.file
            r == run.extract
            isText == Contains(T_text, f.type) \/ Contains(T_markdown, f.type)
            isPdf == Contains(T_pdf, f.type)
        IN
        /\ isText => /\ r.raised = decode_utf8(f.bytes).raised
                     /\ r.value = decode_utf8(f.bytes).value
        /\ (~isText /\ isPdf /\ f.pdf.valid)
              => ~r.raised /\ PagesInOrder(r.value, f.pdf.pages)
        /\ (~isText /\ ~isPdf) => ~r.raised /\ r.value = Unsupported

\* a type containing both "text" and "pdf": the bytes are decoded, the pages
\* are not read
C6_Witness ==
    /\ run.extract.called
    /\ ui.file.type = M_text_pdf
    /\ ui.file.bytes = <<195, 169>>
    /\ run.extract.value = <<233>>
    /\ ui.file.pdf.valid
    /\ Len(ui.file.pdf.pages) = 2

\* C7: once document_content is non-empty no run changes it; it is assigned
\* only in a run that starts with it empty and a file uploaded.
C7_DocumentWriteOnce ==
    [][/\ Document(session_state) # <<>>
            => session_state'.document_content = Document(session_state)
       /\ session_state'.document_content # Document(session_state)
            => Document(session_state) = <<>> /\ ui'.file # NoFile]_vars

\* the document text is kept although another file is now uploaded
C7_Witness ==
    /\ "document_content" \in DOMAIN session_state
    /\ session_state.document_content = <<72, 105>>
    /\ ui.file = F_png
    /\ run.rendered = 3

\* C8: a run with an empty API key field returns at once: no request, no
\* extraction, no row, and the session state is as default initialisation
\* left it.
C8_EmptyKeyReturns ==
    [][ui'.key = ""
        => /\ run'.returned
           /\ run'.sites = {}
           /\ run'.requests = <<>>
           /\ run'.rows = <<>>
           /\ ~run'.extract.called
           /\ session_state' = Defaults(session_state)]_vars

\* the key field was emptied in a session that holds a document and a chat
C8_Witness ==
    /\ run.returned
    /\ ui.key = ""
    /\ "document_content" \in DOMAIN session_state
    /\ session_state.document_content # <<>>
    /\ session_state.chat_history # <<>>
    /\ session_state.gemini_api_key # ""

\* C9: no request to the model carries the placeholder
\* "Unsupported file type." as the document content.
C9_PlaceholderNeverSent ==
    \A i \in DOMAIN run.requests : run.requests[i].doc # Unsupported

\* C10: a run triggered by a button press while the question field still
\* holds an already answered question neither sends the question again nor
\* appends turns.
C10_QuestionSentOnce ==
    [][(/\ run.chat = "ok"
        /\ ui'.question = ui.question
        /\ run'.button # "none")
        => /\ ~HasRequest(run', "chat")
           /\ session_state'.chat_history = History(session_state)]_vars

====
